---------------------------- MODULE Spec2Model ----------------------------
(***************************************************************************)
(* State-machine model of the Formula 1 dashboard: the data model          *)
(* (model/f1_model.py, class F1DataModel), application start-up (app.py)   *)
(* and the views of controller/callbacks.py that derive data themselves.   *)
(*                                                                         *)
(* A table (pandas DataFrame) is a sequence of rows, a row is a record     *)
(* from column name to cell.  An empty DataFrame is the empty sequence.    *)
(*                                                                         *)
(* Cells.  A numeric column holds a natural number, or NaN (absent), and   *)
(* on disk also SENT (the text \N) or BAD (a text that is no number).      *)
(* A text column holds a string; the empty string is the absent value      *)
(* (read_csv reads an empty field as NaN, so no present text is empty) and *)
(* "\\N" is the sentinel as it stands on disk.  The driver columns code,   *)
(* forename and surname are sequences of characters, because the label     *)
(* takes forename[0]; <<>> is the absent value there.                      *)
(***************************************************************************)
EXTENDS Integers, Sequences, FiniteSets, TLC

VARIABLES
    pc,         \* position of create_app: "start", "loading", "post_init",
                \* "layout", "callbacks", "running", "failed"
    present,    \* the files that exist in the base directory
    disk,       \* file name -> the raw table the file holds
    nloaded,    \* how many _load_csv calls of __post_init__ have returned
    self,       \* the F1DataModel object: attribute name -> table
    raised,     \* the exception propagating out of create_app, or "none"
    app,        \* [model, layout, callbacks]: what create_app has built
    loaded,     \* history: the value of self when __post_init__ returned
    ret,        \* the last query call: [op, args, out]
    ui,         \* the values of the year, race and driver dropdowns
    page        \* the page in the browser: the dropdowns' values and options,
                \* and the callbacks that are due

vars == <<pc, present, disk, nloaded, self, raised, app, loaded, ret, ui, page>>

-----------------------------------------------------------------------------
(* Cells *)

NaN  == -1      \* the absent value of a numeric column (NaN / pd.NA)
SENT == -2      \* the text \N in a numeric column of a file
BAD  == -3      \* a text that is not a number, in a numeric column
None == -9      \* Python's None, as a query argument

NAs  == ""              \* the absent value of a text column
SENTs == "\\N"          \* the sentinel text in a text column of a file
NAc  == <<>>            \* the absent value of code / forename / surname
SENTc == <<"\\", "N">>  \* the sentinel text in code / forename / surname

\* the columns by the kind of cell they hold
TextCols == {"name", "country", "location", "status"}
CharCols == {"code", "forename", "surname"}

\* pd.notna
notna(c) == c # NaN
notnas(c) == c # NAs
notnac(c) == c # NAc

to_numeric_lenient(c) == c
\* pd.to_numeric(..., errors="coerce") on one cell
to_numeric(c) == IF c \in {BAD, SENT} THEN NaN ELSE c

\* series == key: an elementwise comparison; NaN and None equal nothing
eq_none_matches_nan(c, key) == c = key \/ (c = NaN /\ key = None)
eq(c, key) == c # NaN /\ key # None /\ c = key

-----------------------------------------------------------------------------
(* Sequences and frames *)

Range(s) == {s[i] : i \in 1..Len(s)}

\* df.empty
empty(df) == Len(df) = 0

\* the order of sort_values on one column: absent values last
\* (na_position="last"), whichever the direction
before(x, y, asc) == x # NaN /\ (y = NaN \/ IF asc THEN x < y ELSE x > y)

\* row a sorts strictly before row b on the columns cols, lexicographically
row_before(a, b, cols, asc) ==
    \E k \in 1..Len(cols) :
        /\ \A j \in 1..(k - 1) : a[cols[j]] = b[cols[j]]
        /\ before(a[cols[k]], b[cols[k]], asc[k])

\* x put behind every row it does not sort before
insert_sorted(s, x, cols, asc) ==
    LET hits == {i \in 1..Len(s) : row_before(x, s[i], cols, asc)}
        k == IF hits = {} THEN Len(s) + 1
             ELSE CHOOSE i \in hits : \A j \in hits : i <= j
    IN SubSeq(s, 1, k - 1) \o <<x>> \o SubSeq(s, k, Len(s))

sort_values_unsorted(df, cols, asc) == df
sort_values_first_key(df, cols, asc) ==
    LET f[i \in 0..Len(df)] ==
            IF i = 0 THEN <<>>
            ELSE insert_sorted(f[i - 1], df[i], <<cols[1]>>, <<asc[1]>>)
    IN f[Len(df)]
\* df.sort_values(cols, ascending=asc): rows that compare equal keep their
\* order (the lexsort of several columns is stable; the sort of one column
\* is an insertion sort at these sizes)
sort_values(df, cols, asc) ==
    LET f[i \in 0..Len(df)] ==
            IF i = 0 THEN <<>> ELSE insert_sorted(f[i - 1], df[i], cols, asc)
    IN f[Len(df)]

\* the rows of right whose key equals k, in order; like pandas, an absent
\* key matches an absent key
matches(right, key, k) ==
    LET hit(r) == r[key] = k IN SelectSeq(right, hit)

\* one left row joined with the columns of one right row
joined(l, r) ==
    [f \in DOMAIN l \cup DOMAIN r |-> IF f \in DOMAIN l THEN l[f] ELSE r[f]]

merge_inner(left, right, key, na) ==
    LET f[i \in 0..Len(left)] ==
            IF i = 0 THEN <<>>
            ELSE LET m == matches(right, key, left[i][key])
                 IN f[i - 1] \o [j \in 1..Len(m) |-> joined(left[i], m[j])]
    IN f[Len(left)]
\* left.merge(right, on=key, how="left"): every left row, in order, once
\* for each right row of the same key, and once with the absent values na
\* in the right table's columns when no right row has its key
merge_left(left, right, key, na) ==
    LET f[i \in 0..Len(left)] ==
            IF i = 0 THEN <<>>
            ELSE LET m == matches(right, key, left[i][key])
                 IN f[i - 1] \o
                    (IF m = <<>> THEN <<joined(left[i], na)>>
                     ELSE [j \in 1..Len(m) |-> joined(left[i], m[j])])
    IN f[Len(left)]

-----------------------------------------------------------------------------
(* Loading: F1DataModel.__post_init__ and _load_csv *)

\* the files in the order __post_init__ loads them; the attribute of self
\* has the name of the file without ".csv"
Files == <<"races", "results", "drivers", "driver_standings", "constructors",
           "constructor_standings", "constructor_results", "lap_times",
           "pit_stops", "qualifying", "seasons", "status", "sprint_results",
           "circuits">>

FileSet == Range(Files)

\* read_csv(path, na_values="\\N") and the replace of "\\N" in the object
\* columns: a cell that is the sentinel becomes the absent value
na_cell(col, c) ==
    IF col \in TextCols THEN (IF c = SENTs THEN NAs ELSE c)
    ELSE IF col \in CharCols THEN (IF c = SENTc THEN NAc ELSE c)
    ELSE (IF c = SENT THEN NaN ELSE c)

load_csv_keep_sentinel(raw) == raw
load_csv(raw) ==
    [i \in 1..Len(raw) |-> [col \in DOMAIN raw[i] |-> na_cell(col, raw[i][col])]]

\* df[col] = pd.to_numeric(df[col], errors="coerce") for every col of cols
\* that is a column of df
coerce(df, cols) ==
    [i \in 1..Len(df) |->
        [col \in DOMAIN df[i] |->
            IF col \in cols THEN to_numeric(df[i][col]) ELSE df[i][col]]]

\* self.races["year"] = pd.to_numeric(self.races["year"], errors="coerce")
post_init(obj) == [obj EXCEPT !["races"] = coerce(obj["races"], {"year"})]

\* the object when __post_init__ has returned, from the files
construct(files) == post_init([n \in FileSet |-> load_csv(files[n])])

NoCall == [op |-> "none", args |-> <<>>, out |-> <<>>]

-----------------------------------------------------------------------------
(* Text *)

Digits == <<"0", "1", "2", "3", "4", "5", "6", "7", "8", "9">>

\* str(n) of a driver identifier: its decimal digits ("nan" for an absent one)
RECURSIVE str(_)
str(n) ==
    IF n = NaN THEN <<"n", "a", "n">>
    ELSE IF n < 10 THEN <<Digits[n + 1]>>
    ELSE str(n \div 10) \o <<Digits[(n % 10) + 1]>>

\* f"{forename[0]}. {surname}"
initial_surname(forename, surname) == <<forename[1], ".", " ">> \o surname

\* the order of the texts the model uses, as Python compares strings
Alphabet == <<"Accident", "Brazil", "Engine", "Finished", "Italy", "Monza",
              "Sao Paulo">>

text_rank(t) == CHOOSE i \in 1..Len(Alphabet) : Alphabet[i] = t

\* the elements of a set of numbers, ascending
RECURSIVE sorted(_)
sorted(S) ==
    IF S = {} THEN <<>>
    ELSE LET m == CHOOSE x \in S : \A y \in S : x <= y
         IN <<m>> \o sorted(S \ {m})

\* the elements of a set of texts, in alphabetical order
sorted_text(S) ==
    LET ranks == sorted({text_rank(t) : t \in S})
    IN [i \in 1..Len(ranks) |-> Alphabet[ranks[i]]]

-----------------------------------------------------------------------------
(* The columns a left join adds, with their absent values *)

na_drivers == [code |-> NAc, forename |-> NAc, surname |-> NAc]
na_constructors == [name |-> NAs]
na_status == [status |-> NAs]
na_country == [country |-> NAs]
na_circuits == [circuitName |-> NAs, location |-> NAs, country |-> NAs,
                lat |-> NaN, lng |-> NaN]

\* df[cols]: the columns cols of every row
project(df, cols) == [i \in 1..Len(df) |-> [c \in cols |-> df[i][c]]]

\* df.rename(columns={old: new})
rename(df, old, new) ==
    [i \in 1..Len(df) |->
        [c \in (DOMAIN df[i] \ {old}) \cup {new} |->
            IF c = new THEN df[i][old] ELSE df[i][c]]]

\* row with one more column
with_col(row, col, v) ==
    [c \in DOMAIN row \cup {col} |-> IF c = col THEN v ELSE row[c]]

-----------------------------------------------------------------------------
(* Filter queries *)

\* races["year"].dropna().astype(int).sort_values().unique().tolist()
get_years(obj) ==
    sorted({obj["races"][i]["year"] : i \in 1..Len(obj["races"])} \ {NaN})

races_of_any_year(obj, year) == obj["races"]

races_of_year(obj, year) ==
    LET in_year(r) == eq(r["year"], year) IN SelectSeq(obj["races"], in_year)

get_races_for_year(obj, year) ==
    LET df == races_of_year(obj, year)
    IN project(sort_values(df, <<"round">>, <<TRUE>>), {"raceId", "name", "round"})

-----------------------------------------------------------------------------
(* Championship standings *)

label_names_first(row) ==
    IF notnac(row["forename"]) /\ notnac(row["surname"])
    THEN initial_surname(row["forename"], row["surname"])
    ELSE IF notnac(row["code"]) THEN row["code"]
    ELSE str(row["driverId"])
\* the label closure of get_driver_championship_standings
label_standings(row) ==
    IF notnac(row["code"]) THEN row["code"]
    ELSE IF notnac(row["forename"]) /\ notnac(row["surname"])
         THEN initial_surname(row["forename"], row["surname"])
    ELSE str(row["driverId"])

\* standings[standings["raceId"].isin(race_ids)]
snapshots_of(standings, race_ids) ==
    LET in_season(r) == r["raceId"] \in race_ids IN SelectSeq(standings, in_season)

idxmax_points(ds, key) ==
    LET keys == sorted({ds[i][key] : i \in 1..Len(ds)} \ {NaN})
        pick(k) ==
            LET grp == {i \in 1..Len(ds) : ds[i][key] = k}
                top == {i \in grp : \A j \in grp :
                           to_numeric(ds[j]["points"]) <= to_numeric(ds[i]["points"])}
            IN CHOOSE i \in top : \A j \in top : i <= j
    IN [n \in 1..Len(keys) |-> pick(keys[n])]
\* ds.groupby(key)["raceId"].idxmax(): for every value of key, ascending
\* (rows with an absent key form no group), the first row that holds the
\* greatest raceId of the group
idxmax(ds, key) ==
    LET keys == sorted({ds[i][key] : i \in 1..Len(ds)} \ {NaN})
        pick(k) ==
            LET grp == {i \in 1..Len(ds) : ds[i][key] = k /\ notna(ds[i]["raceId"])}
                top == {i \in grp : \A j \in grp : ds[j]["raceId"] <= ds[i]["raceId"]}
            IN CHOOSE i \in top : \A j \in top : i <= j
    IN [n \in 1..Len(keys) |-> pick(keys[n])]

\* ds.loc[idx]
loc(ds, idx) == [n \in 1..Len(idx) |-> ds[idx[n]]]

get_driver_championship_standings(obj, year) ==
    LET races_year == races_of_year(obj, year)
        race_ids == {races_year[i]["raceId"] : i \in 1..Len(races_year)}
        ds == coerce(snapshots_of(obj["driver_standings"], race_ids), {"raceId"})
        final_ds == merge_left(loc(ds, idxmax(ds, "driverId")), obj["drivers"],
                               "driverId", na_drivers)
        labelled == [i \in 1..Len(final_ds) |->
                        with_col(final_ds[i], "driverLabel",
                                 label_standings(final_ds[i]))]
    IN IF empty(races_year) THEN <<>>
       ELSE IF empty(ds) THEN <<>>
       ELSE sort_values(coerce(labelled, {"points", "wins", "position"}),
                        <<"points", "wins">>, <<FALSE, FALSE>>)

get_constructor_championship_standings(obj, year) ==
    LET races_year == races_of_year(obj, year)
        race_ids == {races_year[i]["raceId"] : i \in 1..Len(races_year)}
        cs == coerce(snapshots_of(obj["constructor_standings"], race_ids),
                     {"raceId"})
        final_cs == merge_left(loc(cs, idxmax(cs, "constructorId")),
                               obj["constructors"], "constructorId",
                               na_constructors)
    IN IF empty(races_year) THEN <<>>
       ELSE IF empty(cs) THEN <<>>
       ELSE sort_values(coerce(final_cs, {"points", "wins", "position"}),
                        <<"points", "wins">>, <<FALSE, FALSE>>)

-----------------------------------------------------------------------------
(* One race *)

\* the label closure of get_race_results
label_results(row) ==
    IF notnac(row["code"]) THEN row["code"]
    ELSE IF notnac(row["forename"]) /\ notnac(row["surname"])
         THEN initial_surname(row["forename"], row["surname"])
    ELSE str(row["driverId"])

rows_of_race(table, race_id) ==
    LET of_race(r) == eq(r["raceId"], race_id) IN SelectSeq(table, of_race)

status_join_no_rename(res, status) ==
    IF empty(status) THEN res
    ELSE merge_left(coerce(res, {"statusId"}),
                    project(coerce(status, {"statusId"}), {"statusId", "status"}),
                    "statusId", na_status)
\* the join with the status table, made when the table has rows: the
\* statusId of both sides coerced, the text renamed to statusText
status_join(res, status) ==
    IF empty(status) THEN res
    ELSE rename(merge_left(coerce(res, {"statusId"}),
                           project(coerce(status, {"statusId"}),
                                   {"statusId", "status"}),
                           "statusId", na_status),
                "status", "statusText")

get_race_results(obj, race_id) ==
    LET res == coerce(rows_of_race(obj["results"], race_id),
                      {"grid", "positionOrder", "points", "laps"})
        with_drivers == merge_left(res, obj["drivers"], "driverId", na_drivers)
        with_constructors == merge_left(with_drivers, obj["constructors"],
                                        "constructorId", na_constructors)
        with_status == status_join(with_constructors, obj["status"])
    IN IF empty(res) THEN <<>>
       ELSE [i \in 1..Len(with_status) |->
                with_col(with_status[i], "driverLabel",
                         label_results(with_status[i]))]

get_lap_times_for_race(obj, race_id, driver_id) ==
    LET laps == rows_of_race(obj["lap_times"], race_id)
    IN IF empty(laps) THEN <<>>
       ELSE sort_values(coerce(laps, {"milliseconds"}), <<"lap">>, <<TRUE>>)

get_lap_times_for_driver(obj, race_id, driver_id) ==
    LET mine(r) == eq(r["raceId"], race_id) /\ eq(r["driverId"], driver_id)
        laps == SelectSeq(obj["lap_times"], mine)
    IN IF empty(laps) THEN <<>>
       ELSE sort_values(coerce(laps, {"milliseconds"}), <<"lap">>, <<TRUE>>)

get_pitstops_for_race(obj, race_id) ==
    LET pits == rows_of_race(obj["pit_stops"], race_id)
    IN IF empty(pits) THEN <<>> ELSE coerce(pits, {"milliseconds"})

-----------------------------------------------------------------------------
(* Status counts and sprint *)

group_size_text_rows(df, col, count) ==
    LET keys == sorted_text({df[i][col] : i \in 1..Len(df)} \ {NAs})
    IN [n \in 1..Len(keys) |-> (col :> keys[n]) @@ (count :> Len(df))]

\* df.groupby(col).size().reset_index(name=count) on a text column: one row
\* for every present text, in alphabetical order
group_size_text(df, col, count) ==
    LET keys == sorted_text({df[i][col] : i \in 1..Len(df)} \ {NAs})
    IN [n \in 1..Len(keys) |->
           LET k == keys[n]
           IN (col :> k) @@
              (count :> Cardinality({i \in 1..Len(df) : df[i][col] = k}))]

\* the same on a numeric column
group_size(df, col, count) ==
    LET keys == sorted({df[i][col] : i \in 1..Len(df)} \ {NaN})
    IN [n \in 1..Len(keys) |->
           LET k == keys[n]
           IN (col :> k) @@
              (count :> Cardinality({i \in 1..Len(df) : df[i][col] = k}))]

get_status_counts_for_race(obj, race_id) ==
    LET res == get_race_results(obj, race_id)
    IN IF empty(res) \/ "statusText" \notin DOMAIN res[1] THEN <<>>
       ELSE sort_values(group_size_text(res, "statusText", "Count"),
                        <<"Count">>, <<FALSE>>)

\* the label closure of get_sprint_results_for_race
label_sprint(row) ==
    IF notnac(row["code"]) THEN row["code"]
    ELSE IF notnac(row["forename"]) /\ notnac(row["surname"])
         THEN initial_surname(row["forename"], row["surname"])
    ELSE str(row["driverId"])

get_sprint_results_for_race(obj, race_id) ==
    LET sr == coerce(rows_of_race(obj["sprint_results"], race_id),
                     {"grid", "position", "positionOrder", "points", "laps"})
        with_drivers == merge_left(sr, obj["drivers"], "driverId", na_drivers)
        with_constructors == merge_left(with_drivers, obj["constructors"],
                                        "constructorId", na_constructors)
        labelled == [i \in 1..Len(with_constructors) |->
                        with_col(with_constructors[i], "driverLabel",
                                 label_sprint(with_constructors[i]))]
    IN IF empty(sr) THEN <<>>
       ELSE sort_values(labelled, <<"positionOrder">>, <<TRUE>>)

-----------------------------------------------------------------------------
(* Historical views *)

get_races_per_season(obj) == group_size(obj["races"], "year", "raceCount")

get_race_counts_by_country(obj, year) ==
    LET races == IF year # None THEN races_of_year(obj, year) ELSE obj["races"]
        df == merge_left(races, project(obj["circuits"], {"circuitId", "country"}),
                         "circuitId", na_country)
    IN IF empty(races) \/ "circuitId" \notin DOMAIN races[1] THEN <<>>
       ELSE IF empty(obj["circuits"])
               \/ "circuitId" \notin DOMAIN obj["circuits"][1] THEN <<>>
       ELSE sort_values(group_size_text(df, "country", "raceCount"),
                        <<"raceCount">>, <<FALSE>>)

\* the columns get_circuit_locations groups by
LocationCols == {"circuitId", "circuitName", "location", "country", "lat", "lng"}

\* whether a grouping key of a merged row is absent
key_absent(row, col) ==
    IF col \in TextCols \cup {"circuitName"} THEN row[col] = NAs ELSE row[col] = NaN

\* merged.groupby([circuitId, circuitName, location, country, lat, lng])
\* .size().reset_index(name="raceCount"): one row for every combination of
\* present keys, ordered by the keys (circuitId first, which is the key of
\* the circuits table); a row with any key absent forms no group
group_circuits(merged) ==
    LET whole == {i \in 1..Len(merged) :
                     \A col \in LocationCols : ~key_absent(merged[i], col)}
        groups == {[col \in LocationCols |-> merged[i][col]] : i \in whole}
        ids == sorted({g["circuitId"] : g \in groups})
        grp(n) == CHOOSE g \in groups : g["circuitId"] = ids[n]
    IN [n \in 1..Len(ids) |->
           with_col(grp(n), "raceCount",
                    Cardinality({i \in whole :
                        [col \in LocationCols |-> merged[i][col]] = grp(n)}))]

dropna_keep(df, cols) == df
\* df.dropna(subset=cols)
dropna(df, cols) ==
    LET whole(r) == \A col \in cols : notna(r[col]) IN SelectSeq(df, whole)

get_circuit_locations(obj) ==
    LET circuits == rename(project(obj["circuits"],
                                   {"circuitId", "name", "location", "country",
                                    "lat", "lng"}),
                           "name", "circuitName")
        merged == merge_left(obj["races"], circuits, "circuitId", na_circuits)
        grouped == coerce(group_circuits(merged), {"lat", "lng"})
    IN IF empty(obj["races"]) \/ empty(obj["circuits"]) THEN <<>>
       ELSE dropna(grouped, {"lat", "lng"})

-----------------------------------------------------------------------------
(* The pit-stop view of the controller: update_pitstops *)

\* the label closure of update_pitstops
label_pitstops(row) ==
    IF notnac(row["code"]) THEN row["code"]
    ELSE IF notnac(row["forename"]) /\ notnac(row["surname"])
         THEN initial_surname(row["forename"], row["surname"])
    ELSE str(row["driverId"])

\* the frame of the bar chart: pit stops counted by driver, joined with the
\* drivers, labelled; empty when the race has no pit stop (the figure then
\* only carries a title)
update_pitstops(obj, race_id) ==
    LET pits == get_pitstops_for_race(obj, race_id)
        counts == merge_left(group_size(pits, "driverId", "pit_count"),
                             obj["drivers"], "driverId", na_drivers)
    IN IF race_id = None THEN <<>>
       ELSE IF empty(pits) THEN <<>>
       ELSE [i \in 1..Len(counts) |->
                with_col(counts[i], "driverLabel", label_pitstops(counts[i]))]

-----------------------------------------------------------------------------
(* The files: the bounded sets the tables are drawn from *)

MaxRaces == 3       \* rows of races.csv, where the calendar varies
MaxSnap == 2        \* rows of a standings file, where the standings vary
MaxResults == 2     \* rows of results.csv, where the results vary
MaxDrivers == 2     \* rows of drivers.csv, where the drivers vary
MaxCircuits == 2    \* rows of circuits.csv, where the circuits vary
MaxFinishers == 3   \* result rows of one race, where their statuses vary
MaxLaps == 3        \* rows of lap_times.csv, where the laps vary

RaceIds == {1, 2, 3}
DriverIds == {1, 2}
Seasons == {2020, 2021}

\* every sequence of at most n rows of Rows with pairwise different keys
\* (the columns keycols); with ordered, only those in ascending key order
RECURSIVE tables(_, _, _, _)
tables(Rows, keycols, n, ordered) ==
    IF n = 0 THEN {<<>>}
    ELSE LET P == tables(Rows, keycols, n - 1, ordered)
             full == {q \in P : Len(q) = n - 1}
             asc == [k \in 1..Len(keycols) |-> TRUE]
             fits(p, x) ==
                 /\ \A i \in 1..Len(p) : \E k \in 1..Len(keycols) :
                        p[i][keycols[k]] # x[keycols[k]]
                 /\ (ordered /\ p # <<>>)
                        => row_before(p[Len(p)], x, keycols, asc)
         IN P \cup UNION {{Append(p, x) : x \in {y \in Rows : fits(p, y)}} :
                          p \in full}

\* a table with a running identifier in the column col
with_ids(t, col) == [i \in 1..Len(t) |-> with_col(t[i], col, i)]

\* texts of the reference rows
Code(d) ==
    IF d = 1 THEN <<"H", "A", "M">>
    ELSE IF d = 2 THEN <<"V", "E", "R">> ELSE <<"N", "O", "R">>
Forename(d) ==
    IF d = 1 THEN <<"L", "e", "w", "i", "s">>
    ELSE IF d = 2 THEN <<"M", "a", "x">> ELSE <<"L", "a", "n">>
Surname(d) ==
    IF d = 1 THEN <<"H", "a", "m">>
    ELSE IF d = 2 THEN <<"V", "e", "r">> ELSE <<"N", "o", "r">>
RaceName(r) == IF r % 2 = 1 THEN "Monza GP" ELSE "Sao Paulo GP"
TeamName(c) == IF c = 1 THEN "Ferrari" ELSE "McLaren"

\* one race row
race(r, y, rd, c) ==
    [raceId |-> r, year |-> y, round |-> rd, name |-> RaceName(r), circuitId |-> c]

\* one standings snapshot; key is driverId or constructorId
snapshot(key, r, e, p, w) ==
    (key :> e) @@ [raceId |-> r, points |-> p, wins |-> w, position |-> 1]

driver(d, c, f, s) == [driverId |-> d, code |-> c, forename |-> f, surname |-> s]

result(r, d, c, st, g, po, p, l) ==
    [raceId |-> r, driverId |-> d, constructorId |-> c, statusId |-> st,
     grid |-> g, positionOrder |-> po, points |-> p, laps |-> l]

circuit(c, place, co, la, lo) ==
    [circuitId |-> c, name |-> "Autodromo", location |-> place, country |-> co,
     lat |-> la, lng |-> lo]

\* a small data set: what a file holds where a specification does not vary it
BaseFiles ==
    [n \in FileSet |->
        CASE n = "races" ->
               <<race(1, 2020, 1, 1), race(2, 2020, 2, 2), race(3, 2021, 1, 1),
                 race(4, BAD, 2, 9), race(5, SENT, 1, 2)>>
          [] n = "results" ->
               with_ids(<<result(1, 1, 1, 1, 1, 1, 25, 50),
                          result(1, 2, 2, SENT, BAD, 2, 18, 50),
                          result(2, 3, 9, 7, 2, 1, BAD, SENT)>>, "resultId")
          [] n = "drivers" ->
               <<driver(1, Code(1), Forename(1), Surname(1)),
                 driver(2, SENTc, Forename(2), Surname(2))>>
          [] n = "driver_standings" ->
               with_ids(<<snapshot("driverId", 1, 1, 25, 1),
                          snapshot("driverId", 1, 2, 18, 0),
                          snapshot("driverId", 2, 1, 43, 1),
                          snapshot("driverId", 2, 3, BAD, SENT)>>,
                        "driverStandingsId")
          [] n = "constructors" ->
               <<[constructorId |-> 1, name |-> TeamName(1)],
                 [constructorId |-> 2, name |-> TeamName(2)],
                 [constructorId |-> 3, name |-> SENTs]>>
          [] n = "constructor_standings" ->
               with_ids(<<snapshot("constructorId", 1, 1, 25, 1),
                          snapshot("constructorId", 2, 1, 43, 1),
                          snapshot("constructorId", 2, 9, 18, 0)>>,
                        "constructorStandingsId")
          [] n = "constructor_results" ->
               <<[raceId |-> 1, constructorId |-> 1, points |-> 25]>>
          [] n = "lap_times" ->
               <<[raceId |-> 1, driverId |-> 1, lap |-> 2, milliseconds |-> 90],
                 [raceId |-> 1, driverId |-> 1, lap |-> 1, milliseconds |-> BAD],
                 [raceId |-> 1, driverId |-> 2, lap |-> 1, milliseconds |-> 95]>>
          [] n = "pit_stops" ->
               <<[raceId |-> 1, driverId |-> 1, stop |-> 1, milliseconds |-> 25],
                 [raceId |-> 1, driverId |-> 1, stop |-> 2, milliseconds |-> SENT],
                 [raceId |-> 1, driverId |-> 3, stop |-> 1, milliseconds |-> 30]>>
          [] n = "qualifying" ->
               <<[raceId |-> 1, driverId |-> 1, position |-> 1]>>
          [] n = "seasons" -> <<[year |-> 2020], [year |-> 2021]>>
          [] n = "status" ->
               <<[statusId |-> 1, status |-> "Finished"],
                 [statusId |-> 2, status |-> "Engine"]>>
          [] n = "sprint_results" ->
               with_ids(<<[raceId |-> 2, driverId |-> 2, constructorId |-> 2,
                           grid |-> 1, position |-> SENT, positionOrder |-> 2,
                           points |-> 7, laps |-> 17],
                          [raceId |-> 2, driverId |-> 3, constructorId |-> 1,
                           grid |-> 2, position |-> 1, positionOrder |-> 1,
                           points |-> 8, laps |-> 17]>>, "resultId")
          [] OTHER ->   \* circuits
               <<circuit(1, "Monza", "Italy", 45, 9),
                 circuit(2, "Sao Paulo", "Brazil", SENT, 46)>>]

-----------------------------------------------------------------------------
(* Start-up: create_app *)

Nothing == [model |-> FALSE, layout |-> FALSE, callbacks |-> FALSE]
NoSelection == [year |-> None, race |-> None, driver |-> None]

\* no page is open in a browser
NoPage ==
    [open |-> FALSE, year |-> None, race |-> None, driver |-> None,
     race_options |-> <<>>, driver_options |-> <<>>, pending |-> {}]

\* the dropdown values create_layout sets: the last year, and its first race
create_layout(obj) ==
    LET years == get_years(obj)
        default_year == IF years # <<>> THEN years[Len(years)] ELSE None
        races_df == IF default_year # None /\ default_year # 0
                    THEN get_races_for_year(obj, default_year) ELSE <<>>
    IN [year |-> default_year,
        race |-> IF races_df # <<>> THEN races_df[1]["raceId"] ELSE None,
        driver |-> None]

\* create_app calls F1DataModel(base_path=...): __post_init__ begins
Construct ==
    /\ pc = "start"
    /\ pc' = "loading"
    /\ UNCHANGED <<present, disk, nloaded, self, raised, app, loaded, ret, ui, page>>

\* one self.<name> = self._load_csv("<name>.csv") whose file exists
LoadCsv ==
    /\ pc = "loading"
    /\ nloaded < Len(Files)
    /\ Files[nloaded + 1] \in present
    /\ self' = self @@ (Files[nloaded + 1] :> load_csv(disk[Files[nloaded + 1]]))
    /\ nloaded' = nloaded + 1
    /\ UNCHANGED <<pc, present, disk, raised, app, loaded, ret, ui, page>>

LoadCsvSkipMissing ==
    /\ pc = "loading"
    /\ nloaded < Len(Files)
    /\ Files[nloaded + 1] \notin present
    /\ self' = self @@ (Files[nloaded + 1] :> <<>>)
    /\ nloaded' = nloaded + 1
    /\ UNCHANGED <<pc, present, disk, raised, app, loaded, ret, ui, page>>

\* _load_csv of a file that does not exist raises FileNotFoundError, which
\* neither __post_init__ nor create_app catches
LoadCsvMissing ==
    /\ pc = "loading"
    /\ nloaded < Len(Files)
    /\ Files[nloaded + 1] \notin present
    /\ raised' = "FileNotFoundError"
    /\ pc' = "failed"
    /\ UNCHANGED <<present, disk, nloaded, self, app, loaded, ret, ui, page>>

\* the end of __post_init__: the year column coerced; model is bound
PostInit ==
    /\ pc = "loading"
    /\ nloaded = Len(Files)
    /\ self' = post_init(self)
    /\ loaded' = self'
    /\ app' = [app EXCEPT !.model = TRUE]
    /\ pc' = "layout"
    /\ UNCHANGED <<present, disk, nloaded, raised, ret, ui, page>>

\* app.layout = create_layout(model)
CreateLayout ==
    /\ pc = "layout"
    /\ ui' = create_layout(self)
    /\ app' = [app EXCEPT !.layout = TRUE]
    /\ pc' = "callbacks"
    /\ UNCHANGED <<present, disk, nloaded, self, raised, loaded, ret, page>>

\* register_callbacks(app, model); create_app returns and the app runs
RegisterCallbacks ==
    /\ pc = "callbacks"
    /\ app' = [app EXCEPT !.callbacks = TRUE]
    /\ pc' = "running"
    /\ UNCHANGED <<present, disk, nloaded, self, raised, loaded, ret, ui, page>>

-----------------------------------------------------------------------------
(* Query calls *)

YearArgs == Seasons \cup {2019, None}
RaceArgs == {1, 2, 9, None}
DriverArgs == DriverIds \cup {3, None}

written_in_place(obj, attr, cols) == [obj EXCEPT ![attr] = coerce(obj[attr], cols)]
\* the object after a query has coerced the columns cols of rows taken from
\* self.<attr>: the frame written is a copy (.copy(), or the result of a
\* merge), so the attribute keeps its value
written_copy(obj, attr, cols) == obj

\* a call that writes to no frame at all
Call(op, args, out) ==
    /\ pc = "running"
    /\ ret' = [op |-> op, args |-> args, out |-> out]
    /\ UNCHANGED <<pc, present, disk, nloaded, raised, app, loaded, ui, page>>

GetYears ==
    /\ Call("get_years", <<>>, get_years(self))
    /\ UNCHANGED self

GetRacesForYear ==
    \E year \in YearArgs :
        /\ Call("get_races_for_year", <<year>>, get_races_for_year(self, year))
        /\ UNCHANGED self

GetDriverChampionshipStandings ==
    \E year \in YearArgs :
        /\ Call("get_driver_championship_standings", <<year>>,
                get_driver_championship_standings(self, year))
        /\ self' = written_copy(self, "driver_standings",
                                {"raceId", "points", "wins", "position"})

GetConstructorChampionshipStandings ==
    \E year \in YearArgs :
        /\ Call("get_constructor_championship_standings", <<year>>,
                get_constructor_championship_standings(self, year))
        /\ self' = written_copy(self, "constructor_standings",
                                {"raceId", "points", "wins", "position"})

GetRaceResults ==
    \E race_id \in RaceArgs :
        /\ Call("get_race_results", <<race_id>>, get_race_results(self, race_id))
        /\ self' = written_copy(
                       written_copy(self, "results",
                                    {"grid", "positionOrder", "points", "laps",
                                     "statusId"}),
                       "status", {"statusId"})

GetLapTimesForDriver ==
    \E race_id \in RaceArgs, driver_id \in DriverArgs :
        /\ Call("get_lap_times_for_driver", <<race_id, driver_id>>,
                get_lap_times_for_driver(self, race_id, driver_id))
        /\ self' = written_copy(self, "lap_times", {"milliseconds"})

GetPitstopsForRace ==
    \E race_id \in RaceArgs :
        /\ Call("get_pitstops_for_race", <<race_id>>,
                get_pitstops_for_race(self, race_id))
        /\ self' = written_copy(self, "pit_stops", {"milliseconds"})

GetStatusCountsForRace ==
    \E race_id \in RaceArgs :
        /\ Call("get_status_counts_for_race", <<race_id>>,
                get_status_counts_for_race(self, race_id))
        /\ self' = written_copy(
                       written_copy(self, "results",
                                    {"grid", "positionOrder", "points", "laps",
                                     "statusId"}),
                       "status", {"statusId"})

GetSprintResultsForRace ==
    \E race_id \in RaceArgs :
        /\ Call("get_sprint_results_for_race", <<race_id>>,
                get_sprint_results_for_race(self, race_id))
        /\ self' = written_copy(self, "sprint_results",
                                {"grid", "position", "positionOrder", "points",
                                 "laps"})

GetRacesPerSeason ==
    /\ Call("get_races_per_season", <<>>, get_races_per_season(self))
    /\ UNCHANGED self

GetRaceCountsByCountry ==
    \E year \in YearArgs :
        /\ Call("get_race_counts_by_country", <<year>>,
                get_race_counts_by_country(self, year))
        /\ UNCHANGED self

GetCircuitLocations ==
    /\ Call("get_circuit_locations", <<>>, get_circuit_locations(self))
    /\ self' = written_copy(self, "circuits", {"lat", "lng"})

\* the callback of the pit-stop chart
UpdatePitstops ==
    \E race_id \in RaceArgs :
        /\ Call("update_pitstops", <<race_id>>, update_pitstops(self, race_id))
        /\ self' = written_copy(self, "pit_stops", {"milliseconds"})

Query ==
    \/ GetYears
    \/ GetRacesForYear
    \/ GetDriverChampionshipStandings
    \/ GetConstructorChampionshipStandings
    \/ GetRaceResults
    \/ GetLapTimesForDriver
    \/ GetPitstopsForRace
    \/ GetStatusCountsForRace
    \/ GetSprintResultsForRace
    \/ GetRacesPerSeason
    \/ GetRaceCountsByCountry
    \/ GetCircuitLocations
    \/ UpdatePitstops

-----------------------------------------------------------------------------
(* The application from create_app on *)

\* the state of a running application over the files given
Running(files) ==
    /\ pc = "running"
    /\ present = FileSet
    /\ disk = files
    /\ nloaded = Len(Files)
    /\ self = construct(files)
    /\ raised = "none"
    /\ app = [model |-> TRUE, layout |-> TRUE, callbacks |-> TRUE]
    /\ loaded = self
    /\ ret = NoCall
    /\ ui = create_layout(self)
    /\ page = NoPage

\* the data sets of the whole application: the small one, with each of the
\* status, circuits and results files as it is or holding its header alone
AppFiles ==
    {[BaseFiles EXCEPT !["status"] = st, !["circuits"] = ci, !["results"] = re] :
        st \in {BaseFiles["status"], <<>>},
        ci \in {BaseFiles["circuits"], <<>>},
        re \in {BaseFiles["results"], <<>>}}

Init ==
    /\ pc = "start"
    /\ present \in SUBSET FileSet
    /\ disk \in IF present = FileSet THEN AppFiles ELSE {BaseFiles}
    /\ nloaded = 0
    /\ self = <<>>
    /\ raised = "none"
    /\ app = Nothing
    /\ loaded = <<>>
    /\ ret = NoCall
    /\ ui = NoSelection
    /\ page = NoPage

Next ==
    \/ Construct
    \/ LoadCsv
    \/ LoadCsvMissing
    \/ PostInit
    \/ CreateLayout
    \/ RegisterCallbacks
    \/ Query

Spec == Init /\ [][Next]_vars

-----------------------------------------------------------------------------
(* C6: a missing file is fatal to start-up *)

\* C6: when one of the 14 files is absent, construction ends in a
\* FileNotFoundError out of create_app and in nothing else: it stops at the
\* first absent file, no model object is bound, no layout is built, no
\* callback is registered and no query is served
C6_MissingFileIsFatal ==
    present # FileSet =>
        /\ pc \in {"start", "loading", "failed"}
        /\ pc = "loading" => \A k \in 1..nloaded : Files[k] \in present
        /\ pc = "failed" =>
              /\ raised = "FileNotFoundError"
              /\ Files[nloaded + 1] \notin present
              /\ \A k \in 1..nloaded : Files[k] \in present
        /\ pc # "failed" => raised = "none"
        /\ app = Nothing
        /\ loaded = <<>>
        /\ ui = NoSelection
        /\ ret = NoCall

\* a start-up that failed after some of the tables were loaded
C6_Witness ==
    /\ pc = "failed"
    /\ raised = "FileNotFoundError"
    /\ nloaded >= 2
    /\ "races" \in DOMAIN self
    /\ ~app.model

-----------------------------------------------------------------------------
(* C4: a null or unknown key gives an empty result *)

\* whether a query was given a key that is None or that no row of the table
\* it reads carries
no_row(table, col, key) ==
    key = None \/ \A i \in 1..Len(table) : table[i][col] # key

NullOrUnknownKey(call) ==
    LET op == call.op
        a == call.args
    IN CASE op \in {"get_races_for_year", "get_driver_championship_standings",
                    "get_constructor_championship_standings"} ->
              no_row(self["races"], "year", a[1])
         [] op \in {"get_race_results", "get_status_counts_for_race"} ->
              no_row(self["results"], "raceId", a[1])
         [] op = "get_pitstops_for_race" ->
              no_row(self["pit_stops"], "raceId", a[1])
         [] op = "get_sprint_results_for_race" ->
              no_row(self["sprint_results"], "raceId", a[1])
         [] op = "get_lap_times_for_driver" ->
              \/ a[1] = None
              \/ a[2] = None
              \/ \A i \in 1..Len(self["lap_times"]) :
                     \/ self["lap_times"][i]["raceId"] # a[1]
                     \/ self["lap_times"][i]["driverId"] # a[2]
         [] op = "get_race_counts_by_country" ->
              no_row(self["races"], "year", a[1])
         [] OTHER -> FALSE

\* C4 as stated: every query given a null or unknown season, race or driver
\* key returns an empty result
C4_Original == NullOrUnknownKey(ret) => ret.out = <<>>

\* C4 as amended: the same, except that get_race_counts_by_country given no
\* season (None) counts the races of all seasons; given a season without
\* races it returns an empty result like the others
C4_EmptyOnNullOrUnknownKey ==
    /\ (NullOrUnknownKey(ret)
          /\ ~(ret.op = "get_race_counts_by_country" /\ ret.args[1] = None))
       => ret.out = <<>>
    /\ (ret.op = "get_race_counts_by_country" /\ ret.args[1] = None)
       => ret.out = get_race_counts_by_country(loaded, None)

\* a season key that is None, where the races table has rows without a year,
\* and a driver key that no lap-time row carries, in a race that has laps
C4_Witness ==
    \/ /\ ret.op = "get_driver_championship_standings"
       /\ ret.args = <<None>>
       /\ \E i \in 1..Len(self["races"]) : self["races"][i]["year"] = NaN
       /\ ret.out = <<>>
    \/ /\ ret.op = "get_lap_times_for_driver"
       /\ ret.args[2] = 3
       /\ \E i \in 1..Len(self["lap_times"]) :
              self["lap_times"][i]["raceId"] = ret.args[1]
       /\ ret.out = <<>>

-----------------------------------------------------------------------------
(* C5: queries change no table *)

\* the result of a query on an object
Eval(obj, op, a) ==
    CASE op = "get_years" -> get_years(obj)
      [] op = "get_races_for_year" -> get_races_for_year(obj, a[1])
      [] op = "get_driver_championship_standings" ->
           get_driver_championship_standings(obj, a[1])
      [] op = "get_constructor_championship_standings" ->
           get_constructor_championship_standings(obj, a[1])
      [] op = "get_race_results" -> get_race_results(obj, a[1])
      [] op = "get_lap_times_for_driver" ->
           get_lap_times_for_driver(obj, a[1], a[2])
      [] op = "get_pitstops_for_race" -> get_pitstops_for_race(obj, a[1])
      [] op = "get_status_counts_for_race" ->
           get_status_counts_for_race(obj, a[1])
      [] op = "get_sprint_results_for_race" ->
           get_sprint_results_for_race(obj, a[1])
      [] op = "get_races_per_season" -> get_races_per_season(obj)
      [] op = "get_race_counts_by_country" ->
           get_race_counts_by_country(obj, a[1])
      [] op = "get_circuit_locations" -> get_circuit_locations(obj)
      [] op = "update_pitstops" -> update_pitstops(obj, a[1])
      [] OTHER -> <<>>

\* C5: after any sequence of query calls every table equals its value right
\* after load, so every result is the query's result on the tables as
\* loaded, whatever was called before (the same call gives the same result)
C5_QueriesChangeNoTable ==
    pc = "running" =>
        /\ self = loaded
        /\ ret.out = Eval(loaded, ret.op, ret.args)

\* a query that coerced a value that is no number (in a copy) and returned it
\* as absent, while the table still holds the text
C5_Witness ==
    /\ ret.op = "get_race_results"
    /\ \E i \in 1..Len(self["results"]) :
           /\ self["results"][i]["points"] = BAD
           /\ \E j \in 1..Len(ret.out) :
                  /\ ret.out[j]["resultId"] = self["results"][i]["resultId"]
                  /\ ret.out[j]["points"] = NaN

-----------------------------------------------------------------------------
(* The calendar: races.csv varies *)

CalendarRaceIds == 1..4

\* the rows races.csv may hold there: a year that is a season or no number,
\* rounds that repeat
CalendarRows ==
    {race(r, y, rd, 1) : r \in CalendarRaceIds, y \in Seasons \cup {BAD},
                         rd \in 1..2}

InitCalendar ==
    \E races \in tables(CalendarRows, <<"raceId">>, MaxRaces, FALSE) :
        Running([BaseFiles EXCEPT !["races"] = races])

NextCalendar ==
    \/ GetYears
    \/ GetRacesForYear

SpecCalendar == InitCalendar /\ [][NextCalendar]_vars

\* C9: get_races_for_year(Y) returns exactly the races whose year is Y, each
\* once, with the columns raceId, name and round, ordered by round
\* ascending; it is empty for a year without races and for an absent year
C9_RacesForYear ==
    ret.op = "get_races_for_year" =>
        LET year == ret.args[1]
            out == ret.out
            races == self["races"]
            of_year == {i \in 1..Len(races) :
                           year # None /\ races[i]["year"] = year}
        IN /\ Len(out) = Cardinality(of_year)
           /\ \A i \in of_year :
                  Cardinality({j \in 1..Len(out) :
                                  out[j] = [raceId |-> races[i]["raceId"],
                                            name |-> races[i]["name"],
                                            round |-> races[i]["round"]]}) = 1
           /\ \A j \in 1..Len(out) : DOMAIN out[j] = {"raceId", "name", "round"}
           /\ \A j, k \in 1..Len(out) : j < k => out[j]["round"] <= out[k]["round"]
           /\ (year = None \/ of_year = {}) => out = <<>>

\* a season whose races stand in the file in another order than by round,
\* beside a race of another season
C9_Witness ==
    /\ ret.op = "get_races_for_year"
    /\ Len(ret.out) >= 2
    /\ \E i, j \in 1..Len(self["races"]) :
           /\ i < j
           /\ self["races"][i]["year"] = ret.args[1]
           /\ self["races"][j]["year"] = ret.args[1]
           /\ self["races"][i]["round"] > self["races"][j]["round"]
    /\ \E i \in 1..Len(self["races"]) : self["races"][i]["year"] # ret.args[1]

-----------------------------------------------------------------------------
(* The championship: the calendar and the standings files vary *)

\* the entities of the snapshots: driver and constructor 2 are in the
\* reference tables, 3 is in neither
SeasonEntities == {2, 3}

\* raceIds 1..3, the first in 2020, the others in either season
SeasonCalendars ==
    {<<race(1, 2020, 1, 1), race(2, y2, 2, 1), race(3, y3, 3, 2)>> :
        y2 \in Seasons, y3 \in Seasons}

\* points and wins of a snapshot as the file holds them
SnapshotValues == {<<1, 0>>, <<1, 1>>, <<2, 0>>, <<BAD, 1>>, <<1, SENT>>}

SnapshotRows(key) ==
    {snapshot(key, r, e, v[1], v[2]) :
        r \in RaceIds, e \in SeasonEntities, v \in SnapshotValues}

\* a table of snapshots of entities whose key column is `to`, as one of
\* entities whose key column is `from`
rekey(t, from, to) == rename(t, from, to)

\* a running application whose standings files vary, over the calendars
SeasonInit(calendars) ==
    \E races \in calendars,
       snaps \in tables(SnapshotRows("driverId"), <<"raceId", "driverId">>,
                        MaxSnap, TRUE) :
        Running([BaseFiles EXCEPT
                    !["races"] = races,
                    !["driver_standings"] = with_ids(snaps, "driverStandingsId"),
                    !["constructor_standings"] =
                        with_ids(rekey(snaps, "driverId", "constructorId"),
                                 "constructorStandingsId")])

InitSeason == SeasonInit(SeasonCalendars)

NextSeason ==
    \/ GetDriverChampionshipStandings
    \/ GetConstructorChampionshipStandings

SpecSeason == InitSeason /\ [][NextSeason]_vars

\* the standings call the claims read: the table, its entity column and
\* its row identifier
IsStandings == ret.op \in {"get_driver_championship_standings",
                           "get_constructor_championship_standings"}
StandingsTable ==
    IF ret.op = "get_driver_championship_standings"
    THEN self["driver_standings"] ELSE self["constructor_standings"]
EntityCol ==
    IF ret.op = "get_driver_championship_standings"
    THEN "driverId" ELSE "constructorId"
SnapshotIdCol ==
    IF ret.op = "get_driver_championship_standings"
    THEN "driverStandingsId" ELSE "constructorStandingsId"

\* the snapshots of the table whose race belongs to the season asked for
InSeason ==
    {i \in 1..Len(StandingsTable) :
        \E k \in 1..Len(self["races"]) :
            /\ ret.args[1] # None
            /\ self["races"][k]["year"] = ret.args[1]
            /\ self["races"][k]["raceId"] = StandingsTable[i]["raceId"]}

\* C1: the season's standings hold exactly one row for every entity with a
\* snapshot in the season, and none for another entity; the row is the
\* entity's snapshot of greatest raceId in the season, with that snapshot's
\* points, wins and position (coerced to numbers)
C1_FinalSnapshotPerEntity ==
    IsStandings =>
        LET T == StandingsTable
            out == ret.out
            ents == {T[i][EntityCol] : i \in InSeason}
        IN /\ \A j \in 1..Len(out) : out[j][EntityCol] \in ents
           /\ \A e \in ents :
                  LET mine == {i \in InSeason : T[i][EntityCol] = e}
                      last == CHOOSE i \in mine :
                                  \A k \in mine : T[k]["raceId"] <= T[i]["raceId"]
                      rows == {j \in 1..Len(out) : out[j][EntityCol] = e}
                  IN /\ Cardinality(rows) = 1
                     /\ \A j \in rows :
                            /\ out[j]["raceId"] = T[last]["raceId"]
                            /\ out[j][SnapshotIdCol] = T[last][SnapshotIdCol]
                            /\ out[j]["points"] = to_numeric(T[last]["points"])
                            /\ out[j]["wins"] = to_numeric(T[last]["wins"])
                            /\ out[j]["position"] = to_numeric(T[last]["position"])

\* an entity with two snapshots in the season, the earlier with more points
\* than the later, whose row carries the later one's points
C1_Witness ==
    /\ IsStandings
    /\ \E i, k \in InSeason :
           /\ StandingsTable[i][EntityCol] = StandingsTable[k][EntityCol]
           /\ StandingsTable[i]["raceId"] < StandingsTable[k]["raceId"]
           /\ StandingsTable[i]["points"] = 2
           /\ StandingsTable[k]["points"] = 1
           /\ \E j \in 1..Len(ret.out) :
                  /\ ret.out[j][EntityCol] = StandingsTable[k][EntityCol]
                  /\ ret.out[j]["points"] = 1

\* comparisons of cells as numbers: an absent value compares with nothing
gt(x, y) == x # NaN /\ y # NaN /\ x > y
ge(x, y) == x # NaN /\ y # NaN /\ x >= y
same(x, y) == x # NaN /\ y # NaN /\ x = y

\* C2 as stated: for every pair of rows i before j, points(i) > points(j),
\* or points(i) = points(j) and wins(i) >= wins(j)
C2_Original ==
    IsStandings =>
        \A i, j \in 1..Len(ret.out) :
            i < j =>
                \/ gt(ret.out[i]["points"], ret.out[j]["points"])
                \/ /\ same(ret.out[i]["points"], ret.out[j]["points"])
                   /\ ge(ret.out[i]["wins"], ret.out[j]["wins"])

\* C2 as amended: rows are ordered by points descending with the rows of
\* absent points last; rows of equal points (or both of absent points) are
\* ordered by wins descending with the rows of absent wins last
C2_PointsThenWins ==
    IsStandings =>
        \A i, j \in 1..Len(ret.out) :
            i < j =>
                LET pi == ret.out[i]["points"]
                    pj == ret.out[j]["points"]
                    wi == ret.out[i]["wins"]
                    wj == ret.out[j]["wins"]
                IN /\ pi \notin {BAD, SENT} /\ wi \notin {BAD, SENT}
                   /\ pj # NaN => ge(pi, pj)
                   /\ (pi = pj /\ wj # NaN) => ge(wi, wj)

\* two entities of equal points, the one of the greater identifier with
\* more wins, which therefore comes first
C2_Witness ==
    /\ IsStandings
    /\ \E i, j \in 1..Len(ret.out) :
           /\ i < j
           /\ same(ret.out[i]["points"], ret.out[j]["points"])
           /\ gt(ret.out[i]["wins"], ret.out[j]["wins"])
           /\ ret.out[i][EntityCol] > ret.out[j][EntityCol]

-----------------------------------------------------------------------------
(* Joins: the results file and the status file vary, or the standings *)

\* what a result row may hold beside its key: all well, a constructor or a
\* status that no reference row carries, no status, numbers that are none
ResultVariants ==
    {[constructorId |-> 2, statusId |-> 1, grid |-> 1, positionOrder |-> 1,
      points |-> 25, laps |-> 50],
     [constructorId |-> 9, statusId |-> 2, grid |-> 2, positionOrder |-> 2,
      points |-> 18, laps |-> 50],
     [constructorId |-> 2, statusId |-> 7, grid |-> 3, positionOrder |-> 3,
      points |-> 15, laps |-> 49],
     [constructorId |-> 2, statusId |-> SENT, grid |-> BAD,
      positionOrder |-> SENT, points |-> 0, laps |-> 12],
     [constructorId |-> 9, statusId |-> 1, grid |-> 4, positionOrder |-> 4,
      points |-> BAD, laps |-> SENT]}

\* driver 2 is in drivers.csv, driver 3 is not
ResultRows ==
    {joined([raceId |-> r, driverId |-> d], v) :
        r \in {1, 2}, d \in {2, 3}, v \in ResultVariants}

InitResults ==
    \E results \in tables(ResultRows, <<"raceId", "driverId">>, MaxResults, TRUE),
       status \in {BaseFiles["status"], <<>>} :
        Running([BaseFiles EXCEPT
                    !["results"] = with_ids(results, "resultId"),
                    !["status"] = status])

InitJoin == InitResults \/ SeasonInit({BaseFiles["races"]})

NextJoin ==
    \/ GetRaceResults
    \/ GetDriverChampionshipStandings
    \/ GetConstructorChampionshipStandings

SpecJoin == InitJoin /\ [][NextJoin]_vars

\* the rows of a reference table that carry the key k
ref(table, col, k) == {i \in 1..Len(table) : table[i][col] = k}

\* the rows of results of the race asked for
OfRace ==
    {i \in 1..Len(self["results"]) :
        ret.args[1] # None /\ self["results"][i]["raceId"] = ret.args[1]}

\* C7: in get_race_results(R), a row whose statusId is the statusId of a
\* row of the status table carries that row's text as its status text, and
\* a row whose statusId matches none carries no status text
C7_StatusText ==
    ret.op = "get_race_results" =>
        \A j \in 1..Len(ret.out) :
            LET row == ret.out[j]
                src == CHOOSE i \in OfRace :
                           self["results"][i]["resultId"] = row["resultId"]
                hits == ref(self["status"], "statusId",
                            self["results"][src]["statusId"])
            IN /\ hits # {} =>
                      /\ "statusText" \in DOMAIN row
                      /\ row["statusText"] # NAs
                      /\ \A k \in hits : row["statusText"] = self["status"][k]["status"]
               /\ hits = {} =>
                      \/ "statusText" \notin DOMAIN row
                      \/ row["statusText"] = NAs

\* a race with a row whose status is known and a row whose status is not
C7_Witness ==
    /\ ret.op = "get_race_results"
    /\ \E j, k \in 1..Len(ret.out) :
           /\ "statusText" \in DOMAIN ret.out[j]
           /\ ret.out[j]["statusText"] = "Finished"
           /\ ret.out[k]["statusText"] = NAs
           /\ ret.out[k]["statusId"] = 7

\* a cell of a numeric column as a result carries it: the number, or absent
number_or_absent(c) == IF c \in Nat THEN c ELSE NaN

\* the columns a join with the drivers adds to a row of key d: those of the
\* driver's row, or absent values and the identifier as label
DriverColumnsOk(row, d) ==
    LET hits == ref(self["drivers"], "driverId", d)
    IN /\ hits = {} =>
              /\ row["code"] = NAc
              /\ row["forename"] = NAc
              /\ row["surname"] = NAc
              /\ "driverLabel" \in DOMAIN row
              /\ row["driverLabel"] = str(d)
       /\ \A k \in hits :
              /\ row["code"] = self["drivers"][k]["code"]
              /\ row["forename"] = self["drivers"][k]["forename"]
              /\ row["surname"] = self["drivers"][k]["surname"]

ConstructorColumnsOk(row, c) ==
    LET hits == ref(self["constructors"], "constructorId", c)
    IN /\ hits = {} => row["name"] = NAs
       /\ \A k \in hits : row["name"] = self["constructors"][k]["name"]

\* C10: get_race_results(R) holds one row for every result row of R, with
\* whatever the row's driverId, constructorId and statusId match and whatever
\* its grid, positionOrder, points and laps hold: a column joined from a
\* reference row that does not exist is absent, a value that is no number is
\* absent, and the label of an unknown driver is the identifier.  The season's
\* standings likewise hold the row of an entity the reference table lacks.
C10_DataQualityAbsorbed ==
    /\ ret.op = "get_race_results" =>
           LET T == self["results"]
               out == ret.out
           IN /\ Len(out) = Cardinality(OfRace)
              /\ \A i \in OfRace :
                     LET rows == {j \in 1..Len(out) :
                                     out[j]["resultId"] = T[i]["resultId"]}
                     IN /\ Cardinality(rows) = 1
                        /\ \A j \in rows :
                               /\ \A col \in {"grid", "positionOrder", "points",
                                              "laps"} :
                                      out[j][col] = number_or_absent(T[i][col])
                               /\ out[j]["driverId"] = T[i]["driverId"]
                               /\ DriverColumnsOk(out[j], T[i]["driverId"])
                               /\ ConstructorColumnsOk(out[j], T[i]["constructorId"])
                               /\ ref(self["status"], "statusId", T[i]["statusId"]) = {}
                                      => \/ "statusText" \notin DOMAIN out[j]
                                         \/ out[j]["statusText"] = NAs
    /\ IsStandings =>
           \A i \in InSeason :
               LET e == StandingsTable[i][EntityCol]
                   rows == {j \in 1..Len(ret.out) : ret.out[j][EntityCol] = e}
               IN /\ rows # {}
                  /\ \A j \in rows :
                         /\ ret.out[j]["points"] \in Nat \cup {NaN}
                         /\ ret.out[j]["wins"] \in Nat \cup {NaN}
                         /\ IF EntityCol = "driverId"
                            THEN DriverColumnsOk(ret.out[j], e)
                            ELSE ConstructorColumnsOk(ret.out[j], e)

\* a result row of a driver and a constructor that the reference tables
\* lack, with points that are no number, which the result carries with the
\* identifier as label and the points absent
C10_Witness ==
    /\ ret.op = "get_race_results"
    /\ \E i \in OfRace, j \in 1..Len(ret.out) :
           /\ self["results"][i]["driverId"] = 3
           /\ self["results"][i]["constructorId"] = 9
           /\ self["results"][i]["points"] = BAD
           /\ ret.out[j]["resultId"] = self["results"][i]["resultId"]
           /\ ret.out[j]["driverLabel"] = <<"3">>
           /\ ret.out[j]["name"] = NAs
           /\ ret.out[j]["points"] = NaN

-----------------------------------------------------------------------------
(* Labels: the drivers file varies *)

LabelDriverIds == {1, 2, 13}

\* a driver row with each of code, forename and surname present or \N
DriverRows ==
    UNION {{driver(d, c, f, s) :
                c \in {SENTc, Code(d)}, f \in {SENTc, Forename(d)},
                s \in {SENTc, Surname(d)}} : d \in LabelDriverIds}

\* every driver of LabelDriverIds has a row of race 1 in each of the four
\* tables that a view labels
LabelFiles ==
    [BaseFiles EXCEPT
        !["races"] = <<race(1, 2020, 1, 1)>>,
        !["results"] = with_ids(<<result(1, 1, 1, 1, 1, 1, 25, 50),
                                  result(1, 2, 1, 1, 2, 2, 18, 50),
                                  result(1, 13, 2, 2, 3, 3, 15, 50)>>, "resultId"),
        !["driver_standings"] =
            with_ids(<<snapshot("driverId", 1, 1, 25, 1),
                       snapshot("driverId", 1, 2, 18, 0),
                       snapshot("driverId", 1, 13, 15, 0)>>, "driverStandingsId"),
        !["sprint_results"] =
            with_ids(<<[raceId |-> 1, driverId |-> 13, constructorId |-> 2,
                        grid |-> 1, position |-> 1, positionOrder |-> 1,
                        points |-> 8, laps |-> 17],
                       [raceId |-> 1, driverId |-> 2, constructorId |-> 1,
                        grid |-> 2, position |-> 2, positionOrder |-> 2,
                        points |-> 7, laps |-> 17],
                       [raceId |-> 1, driverId |-> 1, constructorId |-> 1,
                        grid |-> 3, position |-> 3, positionOrder |-> 3,
                        points |-> 6, laps |-> 17]>>, "resultId"),
        !["pit_stops"] =
            <<[raceId |-> 1, driverId |-> 13, stop |-> 1, milliseconds |-> 25],
              [raceId |-> 1, driverId |-> 1, stop |-> 1, milliseconds |-> 24],
              [raceId |-> 1, driverId |-> 2, stop |-> 1, milliseconds |-> 26],
              [raceId |-> 1, driverId |-> 1, stop |-> 2, milliseconds |-> 23]>>]

InitLabel ==
    \E drivers \in tables(DriverRows, <<"driverId">>, MaxDrivers, TRUE) :
        Running([LabelFiles EXCEPT !["drivers"] = drivers])

NextLabel ==
    \/ GetDriverChampionshipStandings
    \/ GetRaceResults
    \/ GetSprintResultsForRace
    \/ UpdatePitstops

SpecLabel == InitLabel /\ [][NextLabel]_vars

\* a driver identifier below 100 rendered as a string
decimal(d) ==
    IF d < 10 THEN <<Digits[d + 1]>>
    ELSE <<Digits[(d \div 10) + 1], Digits[(d % 10) + 1]>>

\* the label policy of the specification, on the drivers table: the code if
\* present; else initial and surname if both names are present; else the
\* identifier as a string
PolicyLabel(d) ==
    LET hits == ref(self["drivers"], "driverId", d)
        r == self["drivers"][CHOOSE k \in hits : TRUE]
    IN IF hits = {} THEN decimal(d)
       ELSE IF r["code"] # NAc THEN r["code"]
       ELSE IF r["forename"] # NAc /\ r["surname"] # NAc
            THEN <<Head(r["forename"]), ".", " ">> \o r["surname"]
       ELSE decimal(d)

\* the row a view labels for driver d: d joined with the drivers table
DriverRow(d) ==
    merge_left(<<[driverId |-> d]>>, self["drivers"], "driverId", na_drivers)[1]

LabelViews == {"get_driver_championship_standings", "get_race_results",
               "get_sprint_results_for_race", "update_pitstops"}

\* C3: the driver standings, the race results, the sprint results and the
\* pit-stop view label every driver by the one policy (code, else initial
\* and surname, else the identifier), and the four label functions agree on
\* every driver row
C3_OneLabelPolicy ==
    /\ ret.op \in LabelViews =>
           \A j \in 1..Len(ret.out) :
               ret.out[j]["driverLabel"] = PolicyLabel(ret.out[j]["driverId"])
    /\ \A d \in LabelDriverIds :
           /\ label_standings(DriverRow(d)) = label_results(DriverRow(d))
           /\ label_results(DriverRow(d)) = label_sprint(DriverRow(d))
           /\ label_sprint(DriverRow(d)) = label_pitstops(DriverRow(d))

\* a view with a driver labelled by code although both names are present, a
\* driver without code labelled by initial and surname, and a driver the
\* table lacks labelled by the identifier
C3_Witness ==
    /\ ret.op \in LabelViews
    /\ \E a, b, c \in 1..Len(ret.out) :
           /\ ret.out[a]["driverLabel"] = <<"H", "A", "M">>
           /\ ret.out[a]["forename"] # NAc /\ ret.out[a]["surname"] # NAc
           /\ ret.out[b]["driverLabel"] = <<"M", ".", " ", "V", "e", "r">>
           /\ ret.out[c]["driverLabel"] = <<"1", "3">>

-----------------------------------------------------------------------------
(* Circuits: the circuits file and the calendar vary *)

GeoCircuitIds == {1, 2, 3}

\* a circuit row with each coordinate a number, \N or text that is no number
CircuitRows ==
    UNION {{circuit(c, IF c = 2 THEN "Sao Paulo" ELSE "Monza",
                    IF c = 2 THEN "Brazil" ELSE "Italy", la, lo) :
                la \in {40 + c, SENT, BAD}, lo \in {9, SENT, BAD}} :
           c \in GeoCircuitIds}

\* calendars: every circuit hosts races; one race at an unknown circuit and
\* one without circuit; one circuit only; no race at all
GeoCalendars ==
    {<<race(1, 2020, 1, 1), race(2, 2020, 2, 2), race(3, 2021, 1, 1),
       race(4, 2021, 2, 3), race(5, 2021, 3, 2)>>,
     <<race(1, 2020, 1, 2), race(2, 2020, 2, 9), race(3, 2021, 1, SENT)>>,
     <<race(1, 2020, 1, 3), race(2, 2021, 1, 3)>>,
     <<>>}

InitGeo ==
    \E circuits \in tables(CircuitRows, <<"circuitId">>, MaxCircuits, TRUE) :
        \E races \in GeoCalendars :
            Running([BaseFiles EXCEPT !["circuits"] = circuits,
                                      !["races"] = races])

NextGeo == GetCircuitLocations \/ GetRaceCountsByCountry

SpecGeo == InitGeo /\ [][NextGeo]_vars

\* the circuits that host a race of the calendar
Hosts ==
    {self["races"][i]["circuitId"] : i \in 1..Len(self["races"])}

\* C8: no row of get_circuit_locations has an absent latitude or longitude:
\* both are numbers, also for a circuit that hosted races and whose
\* coordinate was \N or failed the numeric coercion
C8_NoAbsentCoordinate ==
    ret.op = "get_circuit_locations" =>
        \A j \in 1..Len(ret.out) :
            /\ ret.out[j]["lat"] \in Nat
            /\ ret.out[j]["lng"] \in Nat

\* a circuit that hosted races and has a coordinate that is text is left out,
\* another hosting circuit with both coordinates is returned
C8_Witness ==
    /\ ret.op = "get_circuit_locations"
    /\ Len(ret.out) > 0
    /\ \E k \in 1..Len(self["circuits"]) :
           /\ self["circuits"][k]["circuitId"] \in Hosts
           /\ BAD \in {self["circuits"][k]["lat"], self["circuits"][k]["lng"]}
           /\ \A j \in 1..Len(ret.out) :
                  ret.out[j]["circuitId"] # self["circuits"][k]["circuitId"]

-----------------------------------------------------------------------------
(* C11: the sentinel \N is an absent value in every loaded table *)

\* the sentinel and the absent value of the column col
sentinel_of(col) ==
    IF col \in TextCols THEN SENTs ELSE IF col \in CharCols THEN SENTc ELSE SENT

absent_of(col) ==
    IF col \in TextCols THEN NAs ELSE IF col \in CharCols THEN NAc ELSE NaN

\* the cells of the file n that hold the sentinel
SentinelCells(n) ==
    {<<i, col>> \in (1..Len(disk[n])) \X {"code", "name", "position", "lat",
                                          "year", "milliseconds", "wins"} :
        col \in DOMAIN disk[n][i] /\ disk[n][i][col] = sentinel_of(col)}

\* C11: in every table that is loaded, at every moment from its load on, no
\* cell holds the sentinel \N, and every cell that is \N in the file is the
\* absent value of its column
C11_SentinelIsAbsent ==
    \A n \in DOMAIN self :
        /\ Len(self[n]) = Len(disk[n])
        /\ \A i \in 1..Len(self[n]) :
               \A col \in DOMAIN self[n][i] :
                   /\ self[n][i][col] # sentinel_of(col)
                   /\ disk[n][i][col] = sentinel_of(col) =>
                          self[n][i][col] = absent_of(col)

\* all 14 tables are loaded and no query has run; files held \N in a numeric
\* column, in a text column and in a driver code
C11_Witness ==
    /\ pc = "running"
    /\ ret = NoCall
    /\ DOMAIN self = FileSet
    /\ SentinelCells("circuits") # {}
    /\ SentinelCells("constructors") # {}
    /\ SentinelCells("drivers") # {}
    /\ SentinelCells("races") # {}

-----------------------------------------------------------------------------
(* Status counts: the statuses of the results of one race vary *)

FinisherIds == {1, 2, 3, 4}

\* a result row of race 1 with a status that is in the status table, one
\* that is not, \N, or text that is no number
FinisherRows ==
    {result(1, d, 1, st, d, d, 10, 50) :
        d \in FinisherIds, st \in {1, 2, 7, SENT, BAD}}

\* the status table: two texts; two identifiers with one text; header alone
StatusTables ==
    {BaseFiles["status"],
     <<[statusId |-> 1, status |-> "Finished"],
       [statusId |-> 2, status |-> "Finished"]>>,
     <<>>}

\* the results of race 1 vary; race 2 has one result
InitStatus ==
    \E results \in tables(FinisherRows, <<"driverId">>, MaxFinishers, TRUE),
       status \in StatusTables :
        Running([BaseFiles EXCEPT
                    !["results"] =
                        with_ids(results \o <<result(2, 1, 1, 2, 1, 1, 25, 50)>>,
                                 "resultId"),
                    !["status"] = status])

NextStatus == GetStatusCountsForRace \/ GetRaceResults

SpecStatus == InitStatus /\ [][NextStatus]_vars

\* the status text of the result row i: the text of the status row with its
\* statusId, absent if there is none
TextOf(i) ==
    LET hits == ref(self["status"], "statusId", self["results"][i]["statusId"])
    IN IF hits = {} THEN NAs
       ELSE self["status"][CHOOSE k \in hits : TRUE]["status"]

\* C12: get_status_counts_for_race(R) has exactly one row for every status
\* text of a result row of R, its Count is the number of result rows of R
\* with that text, the rows are in descending order of Count, and it is
\* empty when R has no result or there is no status text
C12_StatusCounts ==
    ret.op = "get_status_counts_for_race" =>
        LET texts == {TextOf(i) : i \in OfRace} \ {NAs}
        IN /\ Len(ret.out) = Cardinality(texts)
           /\ \A t \in texts :
                  \E j \in 1..Len(ret.out) :
                      /\ ret.out[j]["statusText"] = t
                      /\ ret.out[j]["Count"] =
                             Cardinality({i \in OfRace : TextOf(i) = t})
           /\ \A a, b \in 1..Len(ret.out) :
                  a < b => ret.out[a]["Count"] >= ret.out[b]["Count"]
           /\ (OfRace = {} \/ empty(self["status"])) => ret.out = <<>>

\* two results of the race finished, one had an engine failure: the text
\* with the higher count comes first although it is later in the alphabet
C12_Witness ==
    /\ ret.op = "get_status_counts_for_race"
    /\ Len(ret.out) = 2
    /\ ret.out[1]["statusText"] = "Finished" /\ ret.out[1]["Count"] = 2
    /\ ret.out[2]["statusText"] = "Engine" /\ ret.out[2]["Count"] = 1

-----------------------------------------------------------------------------
(* Circuit locations: the place of a circuit varies as well *)

\* a circuit row with location and country present or \N, and with both
\* coordinates, without latitude, or with a longitude that is no number
PlaceRows ==
    UNION {{circuit(c, place, co, ll[1], ll[2]) :
                place \in {"Monza", SENTs}, co \in {"Italy", SENTs},
                ll \in {<<40 + c, 9>>, <<SENT, 9>>, <<40 + c, BAD>>}} :
           c \in GeoCircuitIds}

InitPlaces ==
    \E circuits \in tables(PlaceRows, <<"circuitId">>, MaxCircuits, TRUE) :
        \E races \in GeoCalendars :
            Running([BaseFiles EXCEPT !["circuits"] = circuits,
                                      !["races"] = races])

NextPlaces == GetCircuitLocations \/ GetRaceCountsByCountry

SpecPlaces == InitPlaces /\ [][NextPlaces]_vars

\* the races held at the circuit c
RacesAt(c) == ref(self["races"], "circuitId", c)

\* the circuits that hosted a race and have a latitude and a longitude
Located ==
    {k \in 1..Len(self["circuits"]) :
        /\ RacesAt(self["circuits"][k]["circuitId"]) # {}
        /\ to_numeric(self["circuits"][k]["lat"]) # NaN
        /\ to_numeric(self["circuits"][k]["lng"]) # NaN}

\* C13: get_circuit_locations has exactly one row for every circuit that
\* hosted a race and has latitude and longitude, with raceCount the number
\* of races held there; no other circuit is omitted
C13_Original ==
    ret.op = "get_circuit_locations" =>
        /\ Len(ret.out) = Cardinality(Located)
        /\ \A k \in Located :
               \E j \in 1..Len(ret.out) :
                   /\ ret.out[j]["circuitId"] = self["circuits"][k]["circuitId"]
                   /\ ret.out[j]["raceCount"] =
                          Cardinality(RacesAt(self["circuits"][k]["circuitId"]))

\* a circuit that hosted a race and has both coordinates, but whose location
\* or country is absent, is in no row of the result
C13_Witness ==
    /\ ret.op = "get_circuit_locations"
    /\ \E k \in Located :
           /\ NAs \in {self["circuits"][k]["location"],
                       self["circuits"][k]["country"]}
           /\ \A j \in 1..Len(ret.out) :
                  ret.out[j]["circuitId"] # self["circuits"][k]["circuitId"]

-----------------------------------------------------------------------------
(* Races by country: the countries, the calendar and the join key vary *)

\* a circuit row with a country or \N
CountryRows ==
    {circuit(c, "Monza", co, 41, 9) :
        c \in GeoCircuitIds, co \in {"Italy", "Brazil", SENTs}}

\* the circuits: up to MaxCircuits rows, or a table with no circuitId column
CountryCircuits ==
    tables(CountryRows, <<"circuitId">>, MaxCircuits, TRUE)
        \cup {<<[name |-> "Autodromo", country |-> "Italy"]>>}

\* the calendars of GeoCalendars, one with a race whose year is no number,
\* and one with no circuitId column
CountryCalendars ==
    GeoCalendars
        \cup {<<race(1, 2020, 1, 1), race(2, BAD, 2, 1), race(3, 2021, 1, 2),
                race(4, 2021, 2, 1), race(5, 2021, 3, 2)>>,
              <<[raceId |-> 1, year |-> 2020, round |-> 1, name |-> RaceName(1)],
                [raceId |-> 2, year |-> 2021, round |-> 1, name |-> RaceName(2)]>>}

InitCountry ==
    \E circuits \in CountryCircuits, races \in CountryCalendars :
        Running([BaseFiles EXCEPT !["circuits"] = circuits,
                                  !["races"] = races])

NextCountry == GetRaceCountsByCountry \/ GetRacesPerSeason

SpecCountry == InitCountry /\ [][NextCountry]_vars

\* whether the table has rows and the join key circuitId
HasJoinKey(t) == t # <<>> /\ "circuitId" \in DOMAIN t[1]

\* the races the call asked for: of the season, or all with no season given
Asked ==
    {i \in 1..Len(self["races"]) :
        ret.args[1] = None \/ self["races"][i]["year"] = ret.args[1]}

\* the country of the circuit of race i, absent if there is none
CountryOf(i) ==
    LET hits == ref(self["circuits"], "circuitId", self["races"][i]["circuitId"])
    IN IF hits = {} THEN NAs
       ELSE self["circuits"][CHOOSE k \in hits : TRUE]["country"]

\* C14: get_race_counts_by_country(year) is empty when the season has no
\* race or the races or the circuits lack the join key circuitId; otherwise
\* it has one row for every country of a circuit of the races asked for (of
\* the season, or all races when no year is given), with raceCount the
\* number of those races held in that country, in descending order of
\* raceCount
C14_RaceCountsByCountry ==
    ret.op = "get_race_counts_by_country" =>
        IF Asked = {} \/ ~HasJoinKey(self["races"]) \/ ~HasJoinKey(self["circuits"])
        THEN ret.out = <<>>
        ELSE LET countries == {CountryOf(i) : i \in Asked} \ {NAs}
             IN /\ Len(ret.out) = Cardinality(countries)
                /\ \A t \in countries :
                       \E j \in 1..Len(ret.out) :
                           /\ ret.out[j]["country"] = t
                           /\ ret.out[j]["raceCount"] =
                                  Cardinality({i \in Asked : CountryOf(i) = t})
                /\ \A a, b \in 1..Len(ret.out) :
                       a < b => ret.out[a]["raceCount"] >= ret.out[b]["raceCount"]

\* a season with two races in Italy and one in Brazil, beside races of
\* another season: Italy comes first
C14_Witness ==
    /\ ret.op = "get_race_counts_by_country"
    /\ ret.args = <<2021>>
    /\ Cardinality(Asked) < Len(self["races"])
    /\ Len(ret.out) = 2
    /\ ret.out[1]["country"] = "Italy" /\ ret.out[1]["raceCount"] = 2
    /\ ret.out[2]["country"] = "Brazil" /\ ret.out[2]["raceCount"] = 1

-----------------------------------------------------------------------------
(* Lap times: the lap_times file varies *)

lap_time(r, d, l, ms) ==
    [raceId |-> r, driverId |-> d, lap |-> l, milliseconds |-> ms]

\* three laps of driver 1 in race 1, with a time that is a number or not;
\* a lap of another driver in race 1; a lap of driver 1 in another race
LapRows ==
    {lap_time(1, 1, l, ms) : l \in 1..3, ms \in {90, BAD}}
        \cup {lap_time(1, 2, 1, 95), lap_time(2, 1, 1, SENT)}

\* the rows of the file stand in any order
InitLaps ==
    \E laps \in tables(LapRows, <<"raceId", "driverId", "lap">>, MaxLaps, FALSE) :
        Running([BaseFiles EXCEPT !["lap_times"] = laps])

NextLaps == GetLapTimesForDriver \/ GetPitstopsForRace

SpecLaps == InitLaps /\ [][NextLaps]_vars

\* the rows of lap_times of the race and the driver asked for
OfRaceAndDriver ==
    {i \in 1..Len(self["lap_times"]) :
        /\ ret.args[1] # None /\ self["lap_times"][i]["raceId"] = ret.args[1]
        /\ ret.args[2] # None /\ self["lap_times"][i]["driverId"] = ret.args[2]}

\* C15: get_lap_times_for_driver(R, D) returns exactly the rows of lap_times
\* with raceId R and driverId D, each once (its milliseconds a number or
\* absent), ordered by lap ascending; no row of another race or driver is
\* in it, and it is empty when no row matches
C15_LapTimes ==
    ret.op = "get_lap_times_for_driver" =>
        LET laps == self["lap_times"]
            out == ret.out
        IN /\ Len(out) = Cardinality(OfRaceAndDriver)
           /\ \A i \in OfRaceAndDriver :
                  Cardinality({j \in 1..Len(out) :
                      out[j] = lap_time(laps[i]["raceId"], laps[i]["driverId"],
                                        laps[i]["lap"],
                                        IF laps[i]["milliseconds"] \in Nat
                                        THEN laps[i]["milliseconds"] ELSE NaN)}) = 1
           /\ \A j \in 1..Len(out) :
                  out[j]["raceId"] = ret.args[1] /\ out[j]["driverId"] = ret.args[2]
           /\ \A j, k \in 1..Len(out) : j < k => out[j]["lap"] < out[k]["lap"]
           /\ OfRaceAndDriver = {} => out = <<>>

\* two laps of the driver stand in the file in another order than by lap,
\* beside a lap of another driver or race
C15_Witness ==
    /\ ret.op = "get_lap_times_for_driver"
    /\ Len(ret.out) = 2
    /\ Len(self["lap_times"]) = 3
    /\ \E i, j \in OfRaceAndDriver :
           i < j /\ self["lap_times"][i]["lap"] > self["lap_times"][j]["lap"]

-----------------------------------------------------------------------------
(* The callback chain year -> race -> driver *)

\* the options of the race dropdown: one for every row, in the order of the
\* rows; the label is built from round and name
race_options(races_df) ==
    [i \in 1..Len(races_df) |->
        [label |-> <<races_df[i]["round"], races_df[i]["name"]>>,
         value |-> races_df[i]["raceId"]]]

\* the callback of the race dropdown: [options, value]
update_race_options(obj, year) ==
    LET races_df == get_races_for_year(obj, year)
    IN IF year = None THEN [options |-> <<>>, value |-> None]
       ELSE IF empty(races_df) THEN [options |-> <<>>, value |-> None]
       ELSE [options |-> race_options(races_df),
             value |-> race_options(races_df)[1]["value"]]

\* the options of the driver dropdown: the label is built from the driver
\* label and the constructor name
driver_options(res) ==
    [i \in 1..Len(res) |->
        [label |-> <<res[i]["driverLabel"], res[i]["name"]>>,
         value |-> res[i]["driverId"]]]

update_driver_options_unsorted(obj, race_id) ==
    LET res == get_race_results(obj, race_id)
    IN IF race_id = None THEN [options |-> <<>>, value |-> None]
       ELSE IF empty(res) THEN [options |-> <<>>, value |-> None]
       ELSE [options |-> driver_options(res),
             value |-> driver_options(res)[1]["value"]]

\* the callback of the driver dropdown: [options, value]
update_driver_options(obj, race_id) ==
    LET res == get_race_results(obj, race_id)
        by_position == sort_values(res, <<"positionOrder">>, <<TRUE>>)
    IN IF race_id = None THEN [options |-> <<>>, value |-> None]
       ELSE IF empty(res) THEN [options |-> <<>>, value |-> None]
       ELSE [options |-> driver_options(by_position),
             value |-> driver_options(by_position)[1]["value"]]

\* the values of the options of a dropdown
values(options) == {options[i]["value"] : i \in 1..Len(options)}

\* a browser opens the page: the dropdowns hold what create_layout gave
\* them, and the callback of the year dropdown is due; the callback of the
\* race dropdown follows it, as its input is an output of the first
PageLoad ==
    /\ pc = "running"
    /\ page' = [open |-> TRUE, year |-> ui.year, race |-> ui.race,
                driver |-> None,
                race_options |->
                    IF ui.year # None /\ ui.year # 0
                    THEN race_options(get_races_for_year(self, ui.year))
                    ELSE <<>>,
                driver_options |-> <<>>,
                pending |-> {"update_race_options"}]
    /\ UNCHANGED <<pc, present, disk, nloaded, self, raised, app, loaded, ret, ui>>

\* the user picks another year (the dropdown is not clearable)
SelectYear ==
    \E year \in Range(get_years(self)) :
        /\ page.open /\ year # page.year
        /\ page' = [page EXCEPT !.year = year,
                                !.pending = @ \cup {"update_race_options"}]
        /\ UNCHANGED <<pc, present, disk, nloaded, self, raised, app, loaded,
                       ret, ui>>

\* the user picks another race of the options (not clearable)
SelectRace ==
    \E race_id \in values(page.race_options) :
        /\ page.open /\ race_id # page.race
        /\ page' = [page EXCEPT !.race = race_id,
                                !.pending = @ \cup {"update_driver_options"}]
        /\ UNCHANGED <<pc, present, disk, nloaded, self, raised, app, loaded,
                       ret, ui>>

\* the user picks another driver of the options, or clears the dropdown; no
\* callback of the chain has the driver as input
SelectDriver ==
    \E driver_id \in values(page.driver_options) \cup {None} :
        /\ page.open /\ driver_id # page.driver
        /\ page' = [page EXCEPT !.driver = driver_id]
        /\ UNCHANGED <<pc, present, disk, nloaded, self, raised, app, loaded,
                       ret, ui>>

\* update_race_options runs on the year selected: it sets the options and
\* the value of the race dropdown, which makes update_driver_options due
UpdateRaceOptions ==
    /\ "update_race_options" \in page.pending
    /\ LET out == update_race_options(self, page.year)
       IN /\ page' = [page EXCEPT
                         !.race_options = out.options,
                         !.race = out.value,
                         !.pending = (@ \ {"update_race_options"})
                                         \cup {"update_driver_options"}]
          /\ ret' = IF page.year = None THEN ret
                    ELSE [op |-> "get_races_for_year", args |-> <<page.year>>,
                          out |-> get_races_for_year(self, page.year)]
    /\ UNCHANGED <<pc, present, disk, nloaded, self, raised, app, loaded, ui>>

\* update_driver_options runs on the race selected: it sets the options and
\* the value of the driver dropdown
UpdateDriverOptions ==
    /\ "update_driver_options" \in page.pending
    /\ LET out == update_driver_options(self, page.race)
       IN /\ page' = [page EXCEPT
                         !.driver_options = out.options,
                         !.driver = out.value,
                         !.pending = @ \ {"update_driver_options"}]
          /\ ret' = IF page.race = None THEN ret
                    ELSE [op |-> "get_race_results", args |-> <<page.race>>,
                          out |-> get_race_results(self, page.race)]
    /\ UNCHANGED <<pc, present, disk, nloaded, self, raised, app, loaded, ui>>

\* calendars whose file order is not the order of the rounds, one with a
\* race whose year is no number, and none
ChainCalendars ==
    {<<race(1, 2020, 2, 1), race(2, 2020, 1, 2), race(3, 2021, 1, 1)>>,
     <<race(1, 2020, 1, 1), race(2, 2021, 2, 1), race(3, 2021, 1, 2),
       race(4, BAD, 1, 1)>>,
     <<>>}

\* results whose file order is not the order of arrival, with positions
\* that are absent; the small results; none
ChainResults ==
    {with_ids(<<result(1, 1, 1, 1, 1, 2, 18, 50), result(1, 2, 2, 1, 2, 1, 25, 50),
                result(2, 3, 9, 1, 1, SENT, 0, 50), result(2, 1, 1, 1, 2, 1, 25, 50),
                result(3, 2, 2, 2, 1, BAD, 0, 12)>>, "resultId"),
     BaseFiles["results"],
     <<>>}

InitChain ==
    \E races \in ChainCalendars, results \in ChainResults :
        Running([BaseFiles EXCEPT !["races"] = races, !["results"] = results])

NextChain ==
    \/ PageLoad
    \/ SelectYear
    \/ SelectRace
    \/ SelectDriver
    \/ UpdateRaceOptions
    \/ UpdateDriverOptions

SpecChain == InitChain /\ [][NextChain]_vars

\* the races of the year selected
RacesOfSelectedYear ==
    {i \in 1..Len(self["races"]) :
        page.year # None /\ self["races"][i]["year"] = page.year}

\* the results of the race selected
ResultsOfSelectedRace ==
    {i \in 1..Len(self["results"]) :
        page.race # None /\ self["results"][i]["raceId"] = page.race}

\* the arrival order of a result row as a number: an absent one is last
arrival(i) ==
    IF self["results"][i]["positionOrder"] \in Nat
    THEN self["results"][i]["positionOrder"] ELSE 1000

\* the race selected is the one of the lowest round of the year selected,
\* or None if the year has no race
RaceIsFirstOfYear ==
    IF RacesOfSelectedYear = {} THEN page.race = None
    ELSE \E i \in RacesOfSelectedYear :
             /\ self["races"][i]["raceId"] = page.race
             /\ \A k \in RacesOfSelectedYear :
                    self["races"][i]["round"] <= self["races"][k]["round"]

\* the driver selected is the one of the lowest positionOrder in the results
\* of the race selected, or None if the race has no result
DriverIsFirstOfRace ==
    IF ResultsOfSelectedRace = {} THEN page.driver = None
    ELSE \E i \in ResultsOfSelectedRace :
             /\ self["results"][i]["driverId"] = page.driver
             /\ \A k \in ResultsOfSelectedRace : arrival(i) <= arrival(k)

\* the race selected is of the year selected, the driver selected has a
\* result in the race selected
SelectionConsistent ==
    /\ page.race # None =>
           \E i \in RacesOfSelectedYear : self["races"][i]["raceId"] = page.race
    /\ page.driver # None =>
           \E i \in ResultsOfSelectedRace :
               self["results"][i]["driverId"] = page.driver

\* C16: when update_race_options has run the race dropdown holds the race of
\* the lowest round of the year selected (None without year or races); when
\* update_driver_options has run the driver dropdown holds the driver of the
\* lowest positionOrder of the race selected (None without race or
\* results); and whenever no callback of the chain is due, the race
\* selected belongs to the year selected and the driver selected has a
\* result in the race selected
C16_CallbackChain ==
    /\ [][UpdateRaceOptions => RaceIsFirstOfYear']_vars
    /\ [][UpdateDriverOptions => DriverIsFirstOfRace']_vars
    /\ []((page.open /\ page.pending = {}) => SelectionConsistent)

\* the user picked a year other than the default; both callbacks have run:
\* the race is the second in the file and the driver the second in the file
C16_Witness ==
    /\ page.open /\ page.pending = {}
    /\ page.year # ui.year
    /\ ret.op = "get_race_results"
    /\ page.race # None /\ page.driver # None
    /\ RaceIsFirstOfYear /\ DriverIsFirstOfRace
    /\ \E i \in RacesOfSelectedYear :
           \E k \in RacesOfSelectedYear :
               i < k /\ self["races"][k]["raceId"] = page.race
    /\ \E i \in ResultsOfSelectedRace :
           \E k \in ResultsOfSelectedRace :
               i < k /\ self["results"][k]["driverId"] = page.driver

=============================================================================
